---- MODULE Spec2Model ----
(***************************************************************************)
(* Model of azd-template-analysis: the Segment/Insight tree, the           *)
(* aggregation operations over it (HasSegment, GetInsight, the insight     *)
(* resolvers) and the detectors run by AnalyzeTemplate (analyzeHooks,      *)
(* analyzeProject), and the sync command that clones or pulls the          *)
(* templates of the corpus under a pool of permits.                        *)
(*                                                                         *)
(* Go values of static type `any` are modelled as tagged records so that   *)
(* a bool, an int and a string stay distinguishable (GoBool, GoInt,        *)
(* GoString).  Text that the code matches with regular expressions (hook   *)
(* run commands, script contents, paths) is a sequence of one-character    *)
(* strings; map keys that the code only compares (segment names, insight   *)
(* names) are plain strings.  Go map iteration order is unspecified, so    *)
(* every `range` over a map is a nondeterministic choice of order.         *)
(***************************************************************************)
EXTENDS Integers, Sequences, FiniteSets, Bags, TLC

VARIABLES
    root,     \* the Segment tree: AnalyzeTemplate's root, or the tree under query
    pc,       \* position of the running command
    calls,    \* detectors invoked so far by AnalyzeTemplate, in order
    manifest, \* what project.Load yields for the template directory
    fs,       \* the template directory: path -> file state
    ret,      \* what AnalyzeTemplate, or the sync command, returned
    res,      \* the last aggregation call and its result
    first,    \* the first template analysed and the tree it got
    runs,     \* the number of AnalyzeTemplate calls started
    flags,    \* syncFlags: outputDir and template
    templateList, \* the sources of the templates GetTemplates returned
    started,  \* the number of iterations of the sync loop begun
    sem,      \* the number of values buffered in the channel sem
    wg,       \* the counter of the WaitGroup
    goroutines, \* the goroutines of the sync loop: a bag of [source, at]
    log,      \* the messages printed: [source, ok]
    repos,    \* the repository directories under outputDir
    templatesFile \* templates.json: Nil before it is written, then its content

\* the state of the sync command
syncVars == <<flags, templateList, started, sem, wg, goroutines, log, repos, templatesFile>>

\* the state across several analyses
againVars == <<first, runs>>

vars == <<root, pc, calls, manifest, fs, ret, res, againVars, syncVars>>

Nil == [nil |-> TRUE]

\* the sync command has not run
SyncIdle ==
    /\ flags = Nil
    /\ templateList = <<>>
    /\ started = 0
    /\ sem = 0
    /\ wg = 0
    /\ goroutines = EmptyBag
    /\ log = {}
    /\ repos = {}
    /\ templatesFile = Nil

----------------------------------------------------------------------------
(* Go values held in an `any`. *)

GoBool(b) == [kind |-> "bool", b |-> b, n |-> 0, s |-> ""]

GoInt(n) == [kind |-> "int", b |-> FALSE, n |-> n, s |-> ""]

GoString(s) == [kind |-> "string", b |-> FALSE, n |-> 0, s |-> s]

----------------------------------------------------------------------------
(* Segment tree. *)

NewSegment == [Errors |-> <<>>, Data |-> <<>>, Insights |-> <<>>, Segments |-> <<>>]

\* m[k] = v on a Go map
MapSet(m, k, v) == [x \in (DOMAIN m) \cup {k} |-> IF x = k THEN v ELSE m[x]]

\* the paths (sequences of segment names) of all segments of the tree, the root's being <<>>
RECURSIVE Paths(_)
Paths(seg) ==
    {<<>>} \cup UNION {{<<n>> \o p : p \in Paths(seg.Segments[n])} : n \in DOMAIN seg.Segments}

RECURSIVE SegmentAt(_, _)
SegmentAt(seg, path) ==
    IF path = <<>> THEN seg ELSE SegmentAt(seg.Segments[Head(path)], Tail(path))

\* the tree with the segment at path replaced by new
RECURSIVE ReplaceAt(_, _, _)
ReplaceAt(seg, path, new) ==
    IF path = <<>> THEN new
    ELSE [seg EXCEPT !.Segments =
            MapSet(@, Head(path), ReplaceAt(seg.Segments[Head(path)], Tail(path), new))]

----------------------------------------------------------------------------
(* Aggregation API. *)

\* a defect HasSegment could have: looking for the key below the direct children too
RECURSIVE HasSegmentDeep(_, _)
HasSegmentDeep(analysis, key) ==
    \/ key \in DOMAIN analysis.Segments
    \/ \E n \in DOMAIN analysis.Segments : HasSegmentDeep(analysis.Segments[n], key)

\* _, has := analysis.Segments[key]; return has
HasSegment(analysis, key) == key \in DOMAIN analysis.Segments

\* The values a call GetInsight(analysis, key) may return.  The loop over
\* analysis.Segments returns from its first iteration, so the call descends
\* into whichever child the map iteration yields first, and into no other.
RECURSIVE GetInsight(_, _)
GetInsight(analysis, key) ==
    IF key \in DOMAIN analysis.Insights THEN {analysis.Insights[key]}
    ELSE IF DOMAIN analysis.Segments = {} THEN {GoString("")}
    ELSE UNION {GetInsight(analysis.Segments[n], key) : n \in DOMAIN analysis.Segments}

\* some enumeration of a finite set (the order of a range over a map)
RECURSIVE SetToSeq(_)
SetToSeq(S) ==
    IF S = {} THEN <<>> ELSE LET x == CHOOSE y \in S : TRUE IN <<x>> \o SetToSeq(S \ {x})

\* GetInsight[T]: the payloads of every insight named key in the subtree of
\* segment whose value is of the kind T, the segment's own first, then each
\* child's subtree; has tells whether any was collected.
RECURSIVE CollectInsights(_, _, _)
RECURSIVE CollectChildren(_, _, _, _)
CollectInsights(segment, key, kind) ==
    LET own == IF key \in DOMAIN segment.Insights /\ segment.Insights[key].kind = kind
               THEN <<segment.Insights[key]>> ELSE <<>>
    IN own \o CollectChildren(segment, SetToSeq(DOMAIN segment.Segments), key, kind)

CollectChildren(segment, names, key, kind) ==
    IF names = <<>> THEN <<>>
    ELSE CollectInsights(segment.Segments[Head(names)], key, kind)
            \o CollectChildren(segment, Tail(names), key, kind)

GetInsightT(segment, key, kind) ==
    LET values == CollectInsights(segment, key, kind)
    IN [values |-> values, has |-> Len(values) > 0]

\* slices.Contains(values, true)
ContainsTrue(values) == \E i \in 1..Len(values) : values[i].b

\* boolInsightResolver.Value; fmt.Sprint(false) is the string "false"
boolInsightResolverValue(segment, key) ==
    LET r == GetInsightT(segment, key, "bool")
    IN IF ~r.has THEN GoString("false") ELSE GoBool(ContainsTrue(r.values))

RECURSIVE SumValues(_)
SumValues(values) == IF values = <<>> THEN 0 ELSE Head(values).n + SumValues(Tail(values))

\* numberInsightResolver.Value; fmt.Sprint(0) is the string "0"
numberInsightResolverValue(segment, key) ==
    LET r == GetInsightT(segment, key, "int")
    IN IF ~r.has THEN GoString("0") ELSE GoInt(SumValues(r.values))

----------------------------------------------------------------------------
(* Bounded segment trees and the aggregation calls applied to them. *)

MaxNodes == 3

MaxDepth == 2

SegNames == {"a", "b"}

InsightKeys == {"k"}

InsightValues == {GoBool(TRUE), GoBool(FALSE), GoInt(1), GoInt(2)}

NoResult == [op |-> "none", key |-> "", out |-> GoString("")]

InitTree ==
    /\ root = NewSegment
    /\ pc = "tree"
    /\ calls = <<>>
    /\ manifest = Nil
    /\ fs = <<>>
    /\ ret = Nil
    /\ res = NoResult
    /\ first = Nil /\ runs = 0
    /\ SyncIdle

\* parent.Segments[name] = NewSegment()
AddSegment(path, name) ==
    /\ pc = "tree" /\ res = NoResult
    /\ Len(path) < MaxDepth
    /\ Cardinality(Paths(root)) < MaxNodes
    /\ LET parent == SegmentAt(root, path)
       IN root' = ReplaceAt(root, path,
                    [parent EXCEPT !.Segments = MapSet(@, name, NewSegment)])
    /\ UNCHANGED <<againVars, syncVars, pc, calls, manifest, fs, ret, res>>

\* segment.Insights[key] = value
SetInsight(path, key, value) ==
    /\ pc = "tree" /\ res = NoResult
    /\ LET segment == SegmentAt(root, path)
       IN root' = ReplaceAt(root, path,
                    [segment EXCEPT !.Insights = MapSet(@, key, value)])
    /\ UNCHANGED <<againVars, syncVars, pc, calls, manifest, fs, ret, res>>

CallHasSegment(key) ==
    /\ pc = "tree"
    /\ res' = [op |-> "HasSegment", key |-> key, out |-> GoBool(HasSegment(root, key))]
    /\ UNCHANGED <<againVars, syncVars, root, pc, calls, manifest, fs, ret>>

CallGetInsight(key) ==
    /\ pc = "tree"
    /\ \E v \in GetInsight(root, key) :
         res' = [op |-> "GetInsight", key |-> key, out |-> v]
    /\ UNCHANGED <<againVars, syncVars, root, pc, calls, manifest, fs, ret>>

CallBoolValue(key) ==
    /\ pc = "tree"
    /\ res' = [op |-> "boolValue", key |-> key, out |-> boolInsightResolverValue(root, key)]
    /\ UNCHANGED <<againVars, syncVars, root, pc, calls, manifest, fs, ret>>

CallNumberValue(key) ==
    /\ pc = "tree"
    /\ res' = [op |-> "numberValue", key |-> key, out |-> numberInsightResolverValue(root, key)]
    /\ UNCHANGED <<againVars, syncVars, root, pc, calls, manifest, fs, ret>>

NextTree ==
    \/ \E path \in Paths(root), name \in SegNames : AddSegment(path, name)
    \/ \E path \in Paths(root), key \in InsightKeys, value \in InsightValues :
         SetInsight(path, key, value)
    \/ \E key \in SegNames : CallHasSegment(key)
    \/ \E key \in InsightKeys : CallGetInsight(key)
    \/ \E key \in InsightKeys : CallBoolValue(key)
    \/ \E key \in InsightKeys : CallNumberValue(key)

SpecTree == InitTree /\ [][NextTree]_vars

----------------------------------------------------------------------------
(* Properties of the aggregation API, checked under SpecTree. *)

\* the segments of the tree other than the root that are stored under the key name
SegmentsNamed(tree, name) == {p \in Paths(tree) : p # <<>> /\ p[Len(p)] = name}

\* the segments of the tree that hold an insight named key
Occurrences(tree, key) == {p \in Paths(tree) : key \in DOMAIN SegmentAt(tree, p).Insights}

InsightAt(tree, p, key) == SegmentAt(tree, p).Insights[key]

RECURSIVE SumOver(_, _, _)
SumOver(tree, ps, key) ==
    IF ps = {} THEN 0
    ELSE LET p == CHOOSE q \in ps : TRUE
         IN InsightAt(tree, p, key).n + SumOver(tree, ps \ {p}, key)

\* C1 (as stated): HasSegment(root, name) is true iff some segment reachable
\* from root through the Segments maps, at any depth, is stored under name.
C1_HasSegmentAnyDepth ==
    res.op = "HasSegment" => res.out = GoBool(SegmentsNamed(root, res.key) # {})

\* C1 (amended): HasSegment(root, name) is true iff name is a key of root's
\* own Segments map, i.e. a direct child; a name that occurs only at depth 2
\* or deeper yields false.
C1_HasSegmentDirectChild ==
    res.op = "HasSegment" =>
        res.out = GoBool(\E p \in SegmentsNamed(root, res.key) : Len(p) = 1)

\* a HasSegment call for a name stored only below the direct children
C1_Witness ==
    /\ res.op = "HasSegment"
    /\ SegmentsNamed(root, res.key) # {}
    /\ \A p \in SegmentsNamed(root, res.key) : Len(p) >= 2
    /\ res.out = GoBool(FALSE)

\* what a GetInsight call handed back: nothing when it returned ""
Returned == IF res.out = GoString("") THEN <<>> ELSE <<res.out>>

\* C2: GetInsight(root, name) collects every insight stored under name in the
\* whole subtree of root (one value per occurrence) and reports found exactly
\* when at least one occurrence exists, whichever branch is visited first.
C2_GetInsightCollectsSubtree ==
    res.op = "GetInsight" =>
        /\ (Len(Returned) > 0) <=> (Occurrences(root, res.key) # {})
        /\ Len(Returned) = Cardinality(Occurrences(root, res.key))
        /\ \A p \in Occurrences(root, res.key) :
             \E i \in 1..Len(Returned) : Returned[i] = InsightAt(root, p, res.key)

\* C3: the Boolean resolver's value is the boolean true iff some collected
\* bool under the segment is true, and the boolean false otherwise, also when
\* the key occurs nowhere.
C3_BoolResolverIsOr ==
    res.op = "boolValue" =>
        res.out = GoBool(\E p \in Occurrences(root, res.key) :
                            InsightAt(root, p, res.key) = GoBool(TRUE))

\* C4: the Number resolver's value is the integer sum of the collected ints
\* under the segment, the integer 0 when the key occurs nowhere.
C4_NumberResolverIsSum ==
    res.op = "numberValue" =>
        res.out = GoInt(SumOver(root,
                    {p \in Occurrences(root, res.key) : InsightAt(root, p, res.key).kind = "int"},
                    res.key))

----------------------------------------------------------------------------
(* Text: sequences of one-character strings, and the regular expressions   *)
(* of analyze.go over them.                                                *)

Lower == {"a", "b", "c", "d", "e", "f", "g", "h", "i", "j", "k", "l", "m",
          "n", "o", "p", "q", "r", "s", "t", "u", "v", "w", "x", "y", "z"}

Upper == {"A", "B", "C", "D", "E", "F", "G", "H", "I", "J", "K", "L", "M",
          "N", "O", "P", "Q", "R", "S", "T", "U", "V", "W", "X", "Y", "Z"}

Digit == {"0", "1", "2", "3", "4", "5", "6", "7", "8", "9"}

\* \s
IsSpace(c) == c \in {" ", "\t", "\n", "\f", "\r"}

\* [a-zA-Z]
IsLetter(c) == c \in Lower \cup Upper

\* [a-zA-Z0-9_\-\.]
IsWord(c) == c \in Lower \cup Upper \cup Digit \cup {"_", "-", "."}

\* [\\/]
IsSep(c) == c \in {"\\", "/"}

\* whether the literal lit stands in s at position i
LitAt(s, i, lit) ==
    /\ i >= 1
    /\ i + Len(lit) - 1 <= Len(s)
    /\ \A j \in 1..Len(lit) : s[i + j - 1] = lit[j]

\* az\s
MatchAzCli(s) == \E i \in 1..Len(s) : LitAt(s, i, <<"a", "z">>) /\ i + 2 <= Len(s) /\ IsSpace(s[i + 2])

\* az\slogin
MatchAzCliLogin(s) ==
    \E i \in 1..Len(s) :
        /\ LitAt(s, i, <<"a", "z">>)
        /\ i + 2 <= Len(s) /\ IsSpace(s[i + 2])
        /\ LitAt(s, i + 3, <<"l", "o", "g", "i", "n">>)

\* azd\s
MatchAzd(s) == \E i \in 1..Len(s) : LitAt(s, i, <<"a", "z", "d">>) /\ i + 3 <= Len(s) /\ IsSpace(s[i + 3])

\* heuristicMap
HeuristicKeys == {"usesAzCli", "usesAzCliLogin", "usesAzd"}

\* heuristicMap[heuristicKey].MatchString(script)
HeuristicMatch(heuristicKey, script) ==
    CASE heuristicKey = "usesAzCli" -> MatchAzCli(script)
      [] heuristicKey = "usesAzCliLogin" -> MatchAzCliLogin(script)
      [] heuristicKey = "usesAzd" -> MatchAzd(script)

\* s[i..e] matches (?:[a-zA-Z0-9_\-\.]+[\\/])*[a-zA-Z0-9_\-\.]+\.(sh|ps1):
\* word characters and single separators between them, ending in a word
\* character followed by .sh or .ps1
MatchScriptBody(s, i, e) ==
    /\ 1 <= i /\ i <= e /\ e <= Len(s)
    /\ \A j \in i..e :
         \/ IsWord(s[j])
         \/ /\ IsSep(s[j])
            /\ i < j /\ j < e
            /\ IsWord(s[j - 1]) /\ IsWord(s[j + 1])
    /\ \/ e - 3 >= i /\ LitAt(s, e - 2, <<".", "s", "h">>) /\ IsWord(s[e - 3])
       \/ e - 4 >= i /\ LitAt(s, e - 3, <<".", "p", "s", "1">>) /\ IsWord(s[e - 4])

\* s[i..e] matches scriptRegex: ([a-zA-Z]:[\\/]|[\\/])? and then the body
MatchScriptPath(s, i, e) ==
    \/ /\ i + 2 <= Len(s)
       /\ IsLetter(s[i]) /\ s[i + 1] = ":" /\ IsSep(s[i + 2])
       /\ MatchScriptBody(s, i + 3, e)
    \/ /\ i <= Len(s) /\ IsSep(s[i])
       /\ MatchScriptBody(s, i + 1, e)
    \/ MatchScriptBody(s, i, e)

\* the positions at or after from where a match of scriptRegex starts
MatchStarts(s, from) == {i \in from..Len(s) : \E e \in i..Len(s) : MatchScriptPath(s, i, e)}

Min(S) == CHOOSE x \in S : \A y \in S : x <= y

Max(S) == CHOOSE x \in S : \A y \in S : x >= y

\* scriptRegex.FindAllString(s, -1) from position from on: the leftmost match,
\* taken as far as the greedy quantifiers reach, then the matches after it
RECURSIVE FindAllFrom(_, _)
FindAllFrom(s, from) ==
    IF MatchStarts(s, from) = {} THEN <<>>
    ELSE LET i == Min(MatchStarts(s, from))
             e == Max({x \in i..Len(s) : MatchScriptPath(s, i, x)})
         IN <<SubSeq(s, i, e)>> \o FindAllFrom(s, e + 1)

FindAllString(s) == FindAllFrom(s, 1)

----------------------------------------------------------------------------
(* The template directory and the manifest loaded from it. *)

\* the elements of a path, split at "/"
RECURSIVE Components(_, _)
Components(s, cur) ==
    IF s = <<>> THEN <<cur>>
    ELSE IF Head(s) = "/" THEN <<cur>> \o Components(Tail(s), <<>>)
    ELSE Components(Tail(s), Append(cur, Head(s)))

\* filepath.Clean on the elements: drops empty and "." elements, and an
\* element together with the ".." that follows it
RECURSIVE CleanComponents(_, _)
CleanComponents(comps, acc) ==
    IF comps = <<>> THEN acc
    ELSE LET c == Head(comps)
         IN IF c = <<>> \/ c = <<".">> THEN CleanComponents(Tail(comps), acc)
            ELSE IF c = <<".", ".">> /\ acc # <<>> /\ acc[Len(acc)] # <<".", ".">>
                 THEN CleanComponents(Tail(comps), SubSeq(acc, 1, Len(acc) - 1))
            ELSE CleanComponents(Tail(comps), Append(acc, c))

RECURSIVE JoinComponents(_)
JoinComponents(comps) ==
    IF comps = <<>> THEN <<>>
    ELSE IF Len(comps) = 1 THEN Head(comps)
    ELSE Head(comps) \o <<"/">> \o JoinComponents(Tail(comps))

\* filepath.Join(templatePath, rel), as a path relative to templatePath
Join(rel) == JoinComponents(CleanComponents(Components(rel, <<>>), <<>>))

\* os.Stat(filepath.Join(templatePath, rel)) returns no error
StatOk(rel) == Join(rel) \in DOMAIN fs

\* os.ReadFile(filepath.Join(templatePath, rel)): the bytes, or an error
\* (with nil bytes) for a missing file or a directory
ReadFile(rel) ==
    IF Join(rel) \in DOMAIN fs /\ fs[Join(rel)].kind = "file"
    THEN [ok |-> TRUE, bytes |-> fs[Join(rel)].content]
    ELSE [ok |-> FALSE, bytes |-> <<>>]

\* project.Load(templatePath): the decoded azure.yaml, or the error
Load == manifest

\* an entry of a Segment's Errors
Error(msg, hook, path) == [msg |-> msg, hook |-> hook, path |-> path]

ErrNotFound == Error("azure.yaml file not found in repo root", "", <<>>)

ErrUnmarshal == Error("failed to unmarshal azure.yaml file", "", <<>>)

----------------------------------------------------------------------------
(* analyzeHooks *)

ScriptKey == <<"s", "c", "r", "i", "p", "t">>

\* hookRun as resolved by lines 321-327; reading Run through a nil Posix or
\* Windows pointer is a nil pointer dereference, which panics
ResolveRun(hook) ==
    IF hook.Run # <<>> THEN [panic |-> FALSE, run |-> hook.Run]
    ELSE IF hook.Posix = Nil THEN [panic |-> TRUE, run |-> <<>>]
    ELSE IF hook.Posix.Run # <<>> THEN [panic |-> FALSE, run |-> hook.Posix.Run]
    ELSE IF hook.Windows = Nil THEN [panic |-> TRUE, run |-> <<>>]
    ELSE [panic |-> FALSE, run |-> hook.Windows.Run]

\* a defect the flag could have: one override is enough
UsesOsVariantScriptsEither(hook) ==
    \/ hook.Windows # Nil /\ hook.Windows.Run # <<>>
    \/ hook.Posix # Nil /\ hook.Posix.Run # <<>>

\* lines 333-336
UsesOsVariantScripts(hook) ==
    LET hasWindowsScript == hook.Windows # Nil /\ hook.Windows.Run # <<>>
        hasPosixScript == hook.Posix # Nil /\ hook.Posix.Run # <<>>
    IN hasWindowsScript /\ hasPosixScript

\* a defect the classification could have: the run text is never looked up on disk
ClassifyScriptAlwaysInline(hookSegment, hookRun) ==
    [segment |-> [hookSegment EXCEPT !.Insights = MapSet(@, "usesInlineScript", GoBool(TRUE))],
     hookScript |-> hookRun]

\* lines 339-354: the segment with usesInlineScript (and a read error), and hookScript
ClassifyScript(hookSegment, hookRun) ==
    IF ~StatOk(hookRun)
    THEN [segment |-> [hookSegment EXCEPT !.Insights = MapSet(@, "usesInlineScript", GoBool(TRUE))],
          hookScript |-> hookRun]
    ELSE LET read == ReadFile(hookRun)
             s1 == [hookSegment EXCEPT !.Insights = MapSet(@, "usesInlineScript", GoBool(FALSE))]
             s2 == IF read.ok THEN s1
                   ELSE [s1 EXCEPT !.Errors =
                            Append(@, Error("Failed reading hook file", "", Join(hookRun)))]
         IN [segment |-> s2, hookScript |-> read.bytes]

\* a defect the loop over embeddedScripts could have: the first failed read ends it
RECURSIVE ReadEmbeddedStopsAtFailure(_, _, _)
ReadEmbeddedStopsAtFailure(embeddedScripts, hookSegment, allScripts) ==
    IF embeddedScripts = <<>> THEN [segment |-> hookSegment, allScripts |-> allScripts]
    ELSE LET scriptPath == Head(embeddedScripts)
             read == ReadFile(scriptPath)
         IN IF ~read.ok
            THEN [segment |-> [hookSegment EXCEPT !.Errors =
                        Append(@, Error("Failed reading embedded script", "", Join(scriptPath)))],
                  allScripts |-> allScripts]
            ELSE ReadEmbeddedStopsAtFailure(Tail(embeddedScripts), hookSegment,
                    MapSet(allScripts, scriptPath, read.bytes))

\* lines 361-369: each embedded script is read; a failure is an error on the
\* hook segment, a success an entry of allScripts
RECURSIVE ReadEmbedded(_, _, _)
ReadEmbedded(embeddedScripts, hookSegment, allScripts) ==
    IF embeddedScripts = <<>> THEN [segment |-> hookSegment, allScripts |-> allScripts]
    ELSE LET scriptPath == Head(embeddedScripts)
             read == ReadFile(scriptPath)
         IN IF ~read.ok
            THEN ReadEmbedded(Tail(embeddedScripts),
                    [hookSegment EXCEPT !.Errors =
                        Append(@, Error("Failed reading embedded script", "", Join(scriptPath)))],
                    allScripts)
            ELSE ReadEmbedded(Tail(embeddedScripts), hookSegment,
                    MapSet(allScripts, scriptPath, read.bytes))

\* lines 371-376: every script is stored in Data; each heuristic insight is
\* assigned once per script, so it keeps the match against the script that
\* the range over allScripts yields last (last[heuristicKey])
ApplyHeuristics(hookSegment, allScripts, last) ==
    [hookSegment EXCEPT
        !.Data = [k \in (DOMAIN @) \cup DOMAIN allScripts |->
                    IF k \in DOMAIN allScripts THEN allScripts[k] ELSE @[k]],
        !.Insights = [k \in (DOMAIN @) \cup HeuristicKeys |->
                        IF k \in HeuristicKeys
                        THEN GoBool(HeuristicMatch(k, allScripts[last[k]]))
                        ELSE @[k]]]

\* One iteration of the loop over azdProject.Hooks (lines 318-376): the hook
\* segments it may produce and how it ends: "next" (the loop goes on),
\* "return" (line 330) or "panic".
AnalyzeHook(hooksRootSegment, hookName, hook) ==
    LET resolved == ResolveRun(hook)
        hookRun == resolved.run
    IN IF resolved.panic THEN {[segment |-> NewSegment, end |-> "panic"]}
       ELSE IF hookRun = <<>>
       THEN {[segment |-> [NewSegment EXCEPT !.Errors =
                              Append(hooksRootSegment.Errors,
                                     Error("hook missing run command", hookName, <<>>))],
              end |-> "return"]}
       ELSE LET s1 == [NewSegment EXCEPT !.Insights =
                          MapSet(@, "usesOsVariantScripts", GoBool(UsesOsVariantScripts(hook)))]
                classified == ClassifyScript(s1, hookRun)
                embedded == ReadEmbedded(FindAllString(classified.hookScript),
                                         classified.segment,
                                         MapSet(<<>>, ScriptKey, classified.hookScript))
            IN {[segment |-> ApplyHeuristics(embedded.segment, embedded.allScripts, last),
                 end |-> "next"] :
                    last \in [HeuristicKeys -> DOMAIN embedded.allScripts]}


\* The loop over azdProject.Hooks from the hooks in remaining on, in any
\* order: the hook group segments it may produce, and how it ends.
RECURSIVE HookLoop(_, _, _)
HookLoop(hooksRootSegment, hooks, remaining) ==
    IF remaining = {} THEN {[segment |-> hooksRootSegment, end |-> "next"]}
    ELSE UNION {UNION {
            LET attached == [hooksRootSegment EXCEPT !.Segments = MapSet(@, hookName, o.segment)]
            IN IF o.end = "next" THEN HookLoop(attached, hooks, remaining \ {hookName})
               ELSE {[segment |-> attached, end |-> o.end]}
            : o \in AnalyzeHook(hooksRootSegment, hookName, hooks[hookName])}
         : hookName \in remaining}

\* lines 379-389
LifecycleHookNames == {"restore", "build", "provision", "package", "deploy", "up", "down"}

Phases == {"pre", "post"}

\* fmt.Sprintf("%s%s", phase, hookName)
ComposedHookNames == {phase \o hookName : phase \in Phases, hookName \in LifecycleHookNames}

\* a defect the rollups could have: the lookup is made with the insight's name
DeriveHookTypesByInsightName(hooksRootSegment) ==
    [hooksRootSegment EXCEPT !.Insights =
        [k \in (DOMAIN @) \cup {"type-" \o c : c \in ComposedHookNames} |->
            IF \E c \in ComposedHookNames : k = "type-" \o c
            THEN GoBool(HasSegment(hooksRootSegment, k))
            ELSE @[k]]]

\* lines 391-396
DeriveHookTypes(hooksRootSegment) ==
    [hooksRootSegment EXCEPT !.Insights =
        [k \in (DOMAIN @) \cup {"type-" \o c : c \in ComposedHookNames} |->
            IF \E c \in ComposedHookNames : k = "type-" \o c
            THEN GoBool(HasSegment(hooksRootSegment,
                            CHOOSE c \in ComposedHookNames : k = "type-" \o c))
            ELSE @[k]]]

\* a defect analyzeHooks could have: the hook group is attached also when the
\* manifest declares no hook
analyzeHooksAlwaysAttaches(analysis) ==
    IF ~Load.ok THEN {[analysis |-> analysis, err |-> Load.err, panic |-> FALSE]}
    ELSE {[analysis |-> [analysis EXCEPT !.Segments =
                            MapSet(@, "hooks",
                                   IF o.end = "next" THEN DeriveHookTypes(o.segment)
                                   ELSE o.segment)],
           err |-> Nil,
           panic |-> (o.end = "panic")] :
            o \in HookLoop(NewSegment, Load.project.Hooks, DOMAIN Load.project.Hooks)}

\* analyzeHooks(ctx, template, analysis): the outcomes the call may have, each
\* the tree it leaves, the error it returns and whether it panicked instead
analyzeHooks(analysis) ==
    IF ~Load.ok THEN {[analysis |-> analysis, err |-> Load.err, panic |-> FALSE]}
    ELSE IF DOMAIN Load.project.Hooks = {}
    THEN {[analysis |-> analysis, err |-> Nil, panic |-> FALSE]}
    ELSE {[analysis |-> [analysis EXCEPT !.Segments =
                            MapSet(@, "hooks",
                                   IF o.end = "next" THEN DeriveHookTypes(o.segment)
                                   ELSE o.segment)],
           err |-> Nil,
           panic |-> (o.end = "panic")] :
            o \in HookLoop(NewSegment, Load.project.Hooks, DOMAIN Load.project.Hooks)}

----------------------------------------------------------------------------
(* analyzeProject *)

\* lines 239, 244-249
HostTypes == {"appservice", "containerapp", "function", "springapp", "aks", "staticwebapp", "ai.endpoint"}

Languages ==
    [dotnet |-> {"csharp", "dotnet", "fsharp"},
     java |-> {"java"},
     javascript |-> {"javascript", "node", "ts"},
     python |-> {"python", "py"}]

\* a defect the scan could have: every service has to be of the host type
hasHostTypeAll(azdProject, hostType) ==
    \A name \in DOMAIN azdProject.Services : azdProject.Services[name].Host = hostType

hasHostType(azdProject, hostType) ==
    \E name \in DOMAIN azdProject.Services : azdProject.Services[name].Host = hostType

hasLanguage(azdProject, languageSet) ==
    \E name \in DOMAIN azdProject.Services : azdProject.Services[name].Language \in languageSet

\* the insights analyzeProject assigns, by name
ProjectInsights(analysis) ==
    LET azdProject == Load.project
        loaded == azdProject # Nil
        fixed == [missingAzureYamlAtRoot |-> GoBool(Load.notExist),
                  hasProjectHooks |-> GoBool(HasSegment(analysis, "hooks")),
                  hasWorkflows |-> GoBool(loaded /\ azdProject.Workflows > 0),
                  hasMetadata |-> GoBool(loaded /\ azdProject.Metadata),
                  hasServices |-> GoBool(loaded /\ DOMAIN azdProject.Services # {})]
        count == IF loaded
                 THEN [k \in {"serviceCount"} |-> GoInt(Cardinality(DOMAIN azdProject.Services))]
                 ELSE <<>>
    IN [k \in (DOMAIN fixed) \cup (DOMAIN count)
              \cup {"host-" \o h : h \in HostTypes}
              \cup {"lang-" \o l : l \in DOMAIN Languages} |->
          IF k \in DOMAIN fixed THEN fixed[k]
          ELSE IF k \in DOMAIN count THEN count[k]
          ELSE IF \E h \in HostTypes : k = "host-" \o h
          THEN GoBool(loaded /\ hasHostType(azdProject, CHOOSE h \in HostTypes : k = "host-" \o h))
          ELSE GoBool(loaded /\ hasLanguage(azdProject,
                        Languages[CHOOSE l \in DOMAIN Languages : k = "lang-" \o l]))]

\* a defect analyzeProject could have: without a manifest only the
\* missing-manifest and hooks insights are written
analyzeProjectSkipsWithoutManifest(analysis) ==
    LET written == ProjectInsights(analysis)
        keep == IF Load.project # Nil THEN DOMAIN written
                ELSE {"missingAzureYamlAtRoot", "hasProjectHooks"}
    IN [analysis EXCEPT !.Insights =
          [k \in (DOMAIN @) \cup keep |-> IF k \in keep THEN written[k] ELSE @[k]]]

\* analyzeProject(ctx, template, analysis): the tree it leaves; it returns nil
analyzeProject(analysis) ==
    LET written == ProjectInsights(analysis)
    IN [analysis EXCEPT !.Insights =
          [k \in (DOMAIN @) \cup DOMAIN written |->
              IF k \in DOMAIN written THEN written[k] ELSE @[k]]]

----------------------------------------------------------------------------
(* Bounded templates: manifests and template directories. *)

MaxHooks == 2

MaxServices == 2

AzLogin == <<"a", "z", " ", "l", "o", "g", "i", "n">>

HookPath == <<"h", ".", "s", "h">>

HookPs1 == <<"h", ".", "p", "s", "1">>

EmbeddedPath == <<"e", ".", "s", "h">>

\* a script that runs azd and refers to the script ./e.sh
HookContent == <<"a", "z", "d", " ", "x", " ", ".", "/", "e", ".", "s", "h">>

\* an inline script that refers to the scripts c:\m.ps1 and ./e.sh
TwoScripts == <<"c", ":", "\\", "m", ".", "p", "s", "1", " ", ".", "/", "e", ".", "s", "h">>

HookNames == {"predeploy", "postup", "custom"}

\* project.Hook: Run, and the Posix and Windows overrides, each nil or a Hook
\* of which only Run is ever read
HookShapes ==
    [Run : {<<>>, AzLogin, HookPath},
     Posix : {Nil, [Run |-> <<>>], [Run |-> HookPath]},
     Windows : {Nil, [Run |-> <<>>], [Run |-> HookPs1]}]

InlineHook == [Run |-> AzLogin, Posix |-> Nil, Windows |-> Nil]

NoRunHook == [Run |-> <<>>, Posix |-> [Run |-> <<>>], Windows |-> [Run |-> <<>>]]

TwoScriptsHook == [Run |-> TwoScripts, Posix |-> Nil, Windows |-> Nil]

\* the hooks maps of up to MaxHooks hooks; at most one hook is of arbitrary
\* shape and the others are an inline hook or a hook without run command
HookMaps ==
    {h \in UNION {[D -> HookShapes] : D \in {X \in SUBSET HookNames : Cardinality(X) <= MaxHooks}} :
        Cardinality({n \in DOMAIN h : h[n] \notin {InlineHook, NoRunHook}}) <= 1}

ServiceNames == {"web", "api", "worker"}

\* project.Service: Host, Language and the service's own Hooks
ServiceShapes ==
    {[Host |-> "appservice", Language |-> "ts", Hooks |-> <<>>],
     [Host |-> "containerapp", Language |-> "python", Hooks |-> <<>>],
     [Host |-> "function", Language |-> "go", Hooks |-> <<>>],
     [Host |-> "containerapp", Language |-> "java", Hooks |-> [n \in {"prebuild"} |-> InlineHook]]}

ServiceMaps ==
    UNION {[D -> ServiceShapes] : D \in {X \in SUBSET ServiceNames : Cardinality(X) <= MaxServices}}

\* project.Project: Workflows is the number of declared workflows, Metadata
\* whether the metadata block is present
Project(hooks, workflows, metadata, services) ==
    [Hooks |-> hooks, Workflows |-> workflows, Metadata |-> metadata, Services |-> services]

Loaded(project) == [ok |-> TRUE, err |-> Nil, notExist |-> FALSE, project |-> project]

\* no azure.yaml in the template directory
NotFound == [ok |-> FALSE, err |-> ErrNotFound, notExist |-> TRUE, project |-> Nil]

\* an azure.yaml that does not decode
Unparsable == [ok |-> FALSE, err |-> ErrUnmarshal, notExist |-> FALSE, project |-> Nil]

File(content) == [kind |-> "file", content |-> content]

Dir == [kind |-> "dir", content |-> <<>>]

\* the template directory alone
EmptyDir == [p \in {<<>>} |-> Dir]

\* template directories: h.sh is missing, a script or a directory; e.sh is
\* missing or a script
FileSystems ==
    {[p \in DOMAIN EmptyDir \cup DOMAIN extra |-> IF p \in DOMAIN extra THEN extra[p] ELSE Dir] :
        extra \in UNION {[D -> {File(HookContent), File(AzLogin), Dir}] :
                            D \in SUBSET {HookPath, EmbeddedPath}}}

\* the template directories paired with hooks: e.sh, where present, is the
\* script az login, and h.sh is not
HookFileSystems ==
    {x \in FileSystems :
        /\ HookPath \in DOMAIN x => x[HookPath] # File(AzLogin)
        /\ EmbeddedPath \in DOMAIN x => x[EmbeddedPath] = File(AzLogin)}

Templates ==
    {<<Loaded(Project(h, 0, FALSE, <<>>)), f>> : h \in HookMaps, f \in HookFileSystems}
    \cup {<<Loaded(Project(h, 0, FALSE, <<>>)), f>> :
            h \in {[n \in D |-> IF n = "predeploy" THEN TwoScriptsHook ELSE InlineHook] :
                        D \in {{"predeploy"}, {"predeploy", "custom"}}},
            f \in HookFileSystems}
    \cup {<<Loaded(Project(h, w, m, s)), EmptyDir>> :
            h \in {<<>>, [n \in {"predeploy"} |-> InlineHook]},
            w \in {0, 1}, m \in BOOLEAN, s \in ServiceMaps}
    \cup {<<NotFound, EmptyDir>>, <<Unparsable, EmptyDir>>}

----------------------------------------------------------------------------
(* AnalyzeTemplate *)

\* analysisFuncs
analysisFuncs == <<"analyzeHooks", "analyzeProject">>

Init ==
    /\ \E t \in Templates : manifest = t[1] /\ fs = t[2]
    /\ root = NewSegment
    /\ pc = "loop"
    /\ calls = <<>>
    /\ ret = Nil
    /\ res = NoResult
    /\ first = Nil /\ runs = 1
    /\ SyncIdle

\* what the loop does with the result of f: a returned error is appended to root.Errors
AfterCall(f, analysis, err) ==
    /\ root' = IF err # Nil THEN [analysis EXCEPT !.Errors = Append(@, err)] ELSE analysis
    /\ calls' = Append(calls, f)
    /\ pc' = IF Len(calls) + 1 = Len(analysisFuncs) THEN "return" ELSE "loop"

CallAnalyzeHooks ==
    /\ pc = "loop"
    /\ analysisFuncs[Len(calls) + 1] = "analyzeHooks"
    /\ \E o \in analyzeHooks(root) :
         IF o.panic
         THEN root' = o.analysis /\ calls' = Append(calls, "analyzeHooks") /\ pc' = "panic"
         ELSE AfterCall("analyzeHooks", o.analysis, o.err)
    /\ UNCHANGED <<againVars, syncVars, manifest, fs, ret, res>>

CallAnalyzeProject ==
    /\ pc = "loop"
    /\ analysisFuncs[Len(calls) + 1] = "analyzeProject"
    /\ AfterCall("analyzeProject", analyzeProject(root), Nil)
    /\ UNCHANGED <<againVars, syncVars, manifest, fs, ret, res>>

\* return root, nil
Return ==
    /\ pc = "return"
    /\ ret' = [analysis |-> root, err |-> Nil]
    /\ pc' = "done"
    /\ UNCHANGED <<againVars, syncVars, root, calls, manifest, fs, res>>

Next == CallAnalyzeHooks \/ CallAnalyzeProject \/ Return

Spec == Init /\ [][Next]_vars

----------------------------------------------------------------------------
(* Several analyses in a row, as the analyze command makes them: each call *)
(* of AnalyzeTemplate starts from a new root and reads its own template.   *)

MaxRuns == 3

FileHook == [Run |-> HookPath, Posix |-> Nil, Windows |-> Nil]

\* h.sh runs azd and refers to ./e.sh, which runs az login
ScriptsDir ==
    [p \in {<<>>, HookPath, EmbeddedPath} |->
        IF p = HookPath THEN File(HookContent)
        ELSE IF p = EmbeddedPath THEN File(AzLogin) ELSE Dir]

\* the templates analysed in a row: a hook with two collected scripts, an
\* inline hook, a hook without run command beside an inline hook, a manifest
\* with a service only, and no manifest
AgainTemplates ==
    {<<Loaded(Project([n \in {"predeploy"} |-> FileHook], 0, FALSE, <<>>)), ScriptsDir>>,
     <<Loaded(Project([n \in {"predeploy"} |-> InlineHook], 0, FALSE, <<>>)), EmptyDir>>,
     <<Loaded(Project([n \in {"predeploy", "postup"} |->
                            IF n = "predeploy" THEN NoRunHook ELSE InlineHook],
                      0, FALSE, <<>>)), EmptyDir>>,
     <<Loaded(Project(<<>>, 1, TRUE,
                      [n \in {"web"} |-> [Host |-> "appservice", Language |-> "ts", Hooks |-> <<>>]])),
       EmptyDir>>,
     <<NotFound, EmptyDir>>}

InitAgain ==
    /\ \E t \in AgainTemplates : manifest = t[1] /\ fs = t[2]
    /\ root = NewSegment
    /\ pc = "loop"
    /\ calls = <<>>
    /\ ret = Nil
    /\ res = NoResult
    /\ first = Nil /\ runs = 1
    /\ SyncIdle

\* the next call AnalyzeTemplate(ctx, t) of the loop over the templates; the
\* first template and its tree are kept for comparison
AnalyzeAgain(t) ==
    /\ pc = "done"
    /\ runs < MaxRuns
    /\ first' = IF first = Nil
                THEN [manifest |-> manifest, fs |-> fs, analysis |-> ret.analysis]
                ELSE first
    /\ runs' = runs + 1
    /\ manifest' = t[1] /\ fs' = t[2]
    /\ root' = NewSegment
    /\ calls' = <<>>
    /\ ret' = Nil
    /\ pc' = "loop"
    /\ UNCHANGED <<res, syncVars>>

NextAgain ==
    \/ CallAnalyzeHooks
    \/ CallAnalyzeProject
    \/ Return
    \/ \E t \in AgainTemplates : AnalyzeAgain(t)

SpecAgain == InitAgain /\ [][NextAgain]_vars

----------------------------------------------------------------------------
(* The sync command: templates.Sync, and the loop that runs it for every   *)
(* template of the corpus in a goroutine of its own, under the permits of  *)
(* the channel sem and the WaitGroup wg.                                   *)

MaxTemplates == 11

\* sem := make(chan bool, 10)
SemCapacity == 10

\* template sources, as the elements of their paths
SourceA == <<"a", "x">>

SourceB == <<"b", "x">>

\* filepath.Base(source)
Base(source) == source[Len(source)]

\* the lists GetTemplates may return: up to MaxTemplates templates, the
\* second of another source than the others
TemplateLists ==
    {[k \in 1..n |-> IF k = 2 THEN SourceB ELSE SourceA] : n \in 0..MaxTemplates}

\* templates.Sync(source, outputDir) where the git command succeeds or not:
\* the error returned, and the repository directories afterwards
Sync(source, gitOk) ==
    LET repoRoot == Base(source)
    IN IF repoRoot \in repos
       THEN [err |-> IF gitOk THEN Nil ELSE Error("failed to pull repo", "", source),
             repos |-> repos]
       ELSE IF gitOk THEN [err |-> Nil, repos |-> repos \cup {repoRoot}]
       ELSE [err |-> Error("failed to clone repo", "", source), repos |-> repos]

InitSync ==
    /\ flags \in [outputDir : {"", "templates"}, template : {<<>>, SourceA}]
    /\ pc = "start"
    /\ ret = Nil
    /\ templateList = <<>>
    /\ started = 0
    /\ sem = 0
    /\ wg = 0
    /\ goroutines = EmptyBag
    /\ log = {}
    /\ repos \in {{}, {"x"}}
    /\ templatesFile = Nil
    /\ root = NewSegment
    /\ calls = <<>>
    /\ manifest = Nil
    /\ fs = <<>>
    /\ res = NoResult
    /\ first = Nil /\ runs = 0

\* where the command goes once outputDir is set
AfterOutputDir == IF flags.template = <<>> THEN "GetTemplates" ELSE "SyncOne"

\* lines 186-192: an empty outputDir becomes <cwd>/templates, unless Getwd fails
ResolveOutputDir ==
    /\ pc = "start"
    /\ IF flags.outputDir # ""
       THEN pc' = AfterOutputDir /\ UNCHANGED <<flags, ret>>
       ELSE \/ /\ flags' = [flags EXCEPT !.outputDir = "templates"]
               /\ pc' = AfterOutputDir
               /\ UNCHANGED ret
            \/ /\ ret' = [err |-> Error("failed to get current working directory", "", <<>>)]
               /\ pc' = "done"
               /\ UNCHANGED flags
    /\ UNCHANGED <<templateList, started, sem, wg, goroutines, log, repos, templatesFile>>
    /\ UNCHANGED <<root, calls, manifest, fs, res, againVars>>

\* lines 196-203: the template list is downloaded, or the command fails
GetTemplates ==
    /\ pc = "GetTemplates"
    /\ \/ \E list \in TemplateLists :
            /\ templateList' = list
            /\ pc' = IF list = <<>> THEN "Wait" ELSE "Add"
            /\ UNCHANGED ret
       \/ /\ ret' = [err |-> Error("failed to get templates", "", <<>>)]
          /\ pc' = "done"
          /\ UNCHANGED templateList
    /\ UNCHANGED <<flags, started, sem, wg, goroutines, log, repos, templatesFile>>
    /\ UNCHANGED <<root, calls, manifest, fs, res, againVars>>

\* line 206: wg.Add(1)
Add ==
    /\ pc = "Add"
    /\ wg' = wg + 1
    /\ pc' = "Send"
    /\ UNCHANGED <<flags, templateList, started, sem, goroutines, log, repos, templatesFile, ret>>
    /\ UNCHANGED <<root, calls, manifest, fs, res, againVars>>

\* a defect the loop could have: the goroutine is started without a permit
SendWithoutPermit ==
    /\ pc = "Send"
    /\ goroutines' = goroutines (+) SetToBag({[source |-> templateList[started + 1], at |-> "Sync"]})
    /\ started' = started + 1
    /\ pc' = IF started + 1 = Len(templateList) THEN "Wait" ELSE "Add"
    /\ UNCHANGED <<flags, templateList, sem, wg, log, repos, templatesFile, ret>>
    /\ UNCHANGED <<root, calls, manifest, fs, res, againVars>>

\* lines 207-219: sem <- true blocks while the channel holds SemCapacity
\* values; then the goroutine is started with t.Source and calls Sync
Send ==
    /\ pc = "Send"
    /\ sem < SemCapacity
    /\ sem' = sem + 1
    /\ goroutines' = goroutines (+) SetToBag({[source |-> templateList[started + 1], at |-> "Sync"]})
    /\ started' = started + 1
    /\ pc' = IF started + 1 = Len(templateList) THEN "Wait" ELSE "Add"
    /\ UNCHANGED <<flags, templateList, wg, log, repos, templatesFile, ret>>
    /\ UNCHANGED <<root, calls, manifest, fs, res, againVars>>

\* the goroutine g moves on to the position at
MoveTo(g, at) ==
    (goroutines (-) SetToBag({g})) (+) SetToBag({[g EXCEPT !.at = at]})

\* lines 213-217: the goroutine's Sync returns, and the outcome is printed
SyncReturns(g) ==
    /\ g.at = "Sync"
    /\ \E gitOk \in BOOLEAN :
        /\ repos' = Sync(g.source, gitOk).repos
        /\ log' = log \cup {[source |-> g.source, ok |-> Sync(g.source, gitOk).err = Nil]}
    /\ goroutines' = MoveTo(g, "returned")
    /\ UNCHANGED <<flags, templateList, started, sem, wg, templatesFile, pc, ret>>
    /\ UNCHANGED <<root, calls, manifest, fs, res, againVars>>

\* a defect the goroutine could have: the permit is never given back
ReleaseKeepsPermit(g) ==
    /\ g.at = "returned"
    /\ goroutines' = MoveTo(g, "released")
    /\ UNCHANGED <<flags, templateList, started, sem, wg, log, repos, templatesFile, pc, ret>>
    /\ UNCHANGED <<root, calls, manifest, fs, res, againVars>>

\* line 211, deferred: <-sem
Release(g) ==
    /\ g.at = "returned"
    /\ sem > 0
    /\ sem' = sem - 1
    /\ goroutines' = MoveTo(g, "released")
    /\ UNCHANGED <<flags, templateList, started, wg, log, repos, templatesFile, pc, ret>>
    /\ UNCHANGED <<root, calls, manifest, fs, res, againVars>>

\* line 210, deferred: wg.Done(), and the goroutine ends
Done(g) ==
    /\ g.at = "released"
    /\ wg' = wg - 1
    /\ goroutines' = goroutines (-) SetToBag({g})
    /\ UNCHANGED <<flags, templateList, started, sem, log, repos, templatesFile, pc, ret>>
    /\ UNCHANGED <<root, calls, manifest, fs, res, againVars>>

\* a defect the command could have: it goes on without waiting
WaitReturnsAtOnce ==
    /\ pc = "Wait"
    /\ pc' = "Write"
    /\ UNCHANGED <<syncVars, ret>>
    /\ UNCHANGED <<root, calls, manifest, fs, res, againVars>>

\* line 221: wg.Wait() returns once the counter is zero
Wait ==
    /\ pc = "Wait"
    /\ wg = 0
    /\ pc' = "Write"
    /\ UNCHANGED <<syncVars, ret>>
    /\ UNCHANGED <<root, calls, manifest, fs, res, againVars>>

\* lines 223-231, 241: templates.json is written with the list, or the command fails
WriteTemplatesFile ==
    /\ pc = "Write"
    /\ \/ /\ templatesFile' = [content |-> templateList]
          /\ ret' = [err |-> Nil]
       \/ /\ ret' = [err |-> Error("failed to write templates file", "", <<>>)]
          /\ UNCHANGED templatesFile
    /\ pc' = "done"
    /\ UNCHANGED <<flags, templateList, started, sem, wg, goroutines, log, repos>>
    /\ UNCHANGED <<root, calls, manifest, fs, res, againVars>>

\* lines 233-241: the one template named by the flag is synced
SyncOne ==
    /\ pc = "SyncOne"
    /\ \E gitOk \in BOOLEAN :
        /\ repos' = Sync(flags.template, gitOk).repos
        /\ IF Sync(flags.template, gitOk).err # Nil
           THEN /\ ret' = [err |-> Error("failed to sync template", "", flags.template)]
                /\ UNCHANGED log
           ELSE /\ ret' = [err |-> Nil]
                /\ log' = log \cup {[source |-> flags.template, ok |-> TRUE]}
    /\ pc' = "done"
    /\ UNCHANGED <<flags, templateList, started, sem, wg, goroutines, templatesFile>>
    /\ UNCHANGED <<root, calls, manifest, fs, res, againVars>>

\* a step of the command's own goroutine
MainStep ==
    \/ ResolveOutputDir
    \/ GetTemplates
    \/ Add
    \/ Send
    \/ Wait
    \/ WriteTemplatesFile
    \/ SyncOne

\* a step of a goroutine of the loop
GoroutineStep ==
    \E g \in BagToSet(goroutines) : SyncReturns(g) \/ Release(g) \/ Done(g)

NextSync == MainStep \/ GoroutineStep

SpecSync == InitSync /\ [][NextSync]_vars

\* every goroutine that can run is run eventually, and every Sync call
\* returns eventually
FairSpecSync == SpecSync /\ WF_vars(MainStep) /\ WF_vars(GoroutineStep)

----------------------------------------------------------------------------
(* Properties of AnalyzeTemplate and its detectors, checked under Spec. *)

InSeq(x, seq) == \E i \in 1..Len(seq) : seq[i] = x

\* analyzeHooks has been called and the manifest was loaded
HooksAnalyzed == Len(calls) >= 1 /\ manifest.ok

DeclaredHooks == manifest.project.Hooks

\* the hook group segment, once attached
HasHooksSegment == "hooks" \in DOMAIN root.Segments

HookSegments == root.Segments["hooks"].Segments

\* the effective run command as the specification words it: the direct run
\* value, else the POSIX override's when present and non-empty, else the
\* Windows override's; empty when there is none
EffectiveRun(hook) ==
    IF hook.Run # <<>> THEN hook.Run
    ELSE IF hook.Posix # Nil /\ hook.Posix.Run # <<>> THEN hook.Posix.Run
    ELSE IF hook.Windows # Nil THEN hook.Windows.Run
    ELSE <<>>

\* a hook segment that went through the classification of its script
Classified(segment) == "usesInlineScript" \in DOMAIN segment.Insights

MissingRunError(hookName) == Error("hook missing run command", hookName, <<>>)

\* C5: AnalyzeTemplate always returns a non-nil root and a nil error, having
\* invoked every detector exactly once, hooks then project, even after a
\* detector error, and every detector error is a string of root.Errors.
C5_AnalyzeTemplateAlwaysReturns ==
    /\ pc # "panic"
    /\ pc = "done" =>
        /\ ret.analysis # Nil /\ ret.err = Nil
        /\ calls = <<"analyzeHooks", "analyzeProject">>
        /\ ~manifest.ok => InSeq(manifest.err, ret.analysis.Errors)

ManifestBooleans ==
    {"hasWorkflows", "hasMetadata", "hasServices"}
        \cup {"host-" \o h : h \in HostTypes} \cup {"lang-" \o l : l \in DOMAIN Languages}

\* C6 (as stated): with the manifest missing, every manifest-dependent insight
\* is absent from the returned tree, so that a lookup reports not-found.
C6_ManifestInsightsAbsent ==
    (pc = "done" /\ manifest.notExist) =>
        \A k \in ManifestBooleans \cup {"serviceCount"} :
            /\ Occurrences(ret.analysis, k) = {}
            /\ GetInsight(ret.analysis, k) = {GoString("")}

\* C6 (amended): with the manifest missing, serviceCount is absent from the
\* returned tree, while hasWorkflows, hasMetadata, hasServices, every host-*
\* and every lang-* insight is present on the root with the value false, so
\* that a lookup of such a name reports found-and-false.
C6_ManifestInsightsFalse ==
    (pc = "done" /\ manifest.notExist) =>
        /\ Occurrences(ret.analysis, "serviceCount") = {}
        /\ GetInsight(ret.analysis, "serviceCount") = {GoString("")}
        /\ \A k \in ManifestBooleans :
            /\ Occurrences(ret.analysis, k) = {<<>>}
            /\ ret.analysis.Insights[k] = GoBool(FALSE)
            /\ GetInsight(ret.analysis, k) = {GoBool(FALSE)}

\* a returned analysis of a template without manifest
C6_Witness ==
    /\ pc = "done" /\ manifest = NotFound
    /\ ret.analysis.Insights["host-aks"] = GoBool(FALSE)
    /\ InSeq(ErrNotFound, ret.analysis.Errors)

\* no declared hook is one whose run resolution dereferences a nil override
NoNilOverrideRead == \A n \in DOMAIN DeclaredHooks : ~ResolveRun(DeclaredHooks[n]).panic

\* C7: a hook without any run command gets an error on its own segment and
\* only its processing stops: every other hook of the group still has its
\* segment with usesInlineScript, usesOsVariantScripts and the heuristic
\* insights, and the type-<phase><hook> rollups are derived.
C7_MissingRunStopsOnlyThatHook ==
    (HooksAnalyzed /\ pc # "panic" /\ NoNilOverrideRead /\ DOMAIN DeclaredHooks # {}) =>
        /\ HasHooksSegment
        /\ \A n \in DOMAIN DeclaredHooks :
            /\ n \in DOMAIN HookSegments
            /\ IF EffectiveRun(DeclaredHooks[n]) = <<>>
               THEN InSeq(MissingRunError(n), HookSegments[n].Errors)
               ELSE {"usesInlineScript", "usesOsVariantScripts"} \cup HeuristicKeys
                        \subseteq DOMAIN HookSegments[n].Insights
        /\ \A c \in ComposedHookNames :
            /\ "type-" \o c \in DOMAIN root.Segments["hooks"].Insights
            /\ root.Segments["hooks"].Insights["type-" \o c] = GoBool(c \in DOMAIN DeclaredHooks)

\* C8: the effective run command is the direct run value, else the POSIX
\* override's when present and non-empty, else the Windows override's, and
\* the resolution ends with a value or the missing-run error for every
\* combination of present and absent overrides, never with a failed analysis.
C8_RunResolution ==
    HooksAnalyzed =>
        /\ pc # "panic"
        /\ HasHooksSegment =>
            \A n \in DOMAIN HookSegments :
                LET run == EffectiveRun(DeclaredHooks[n])
                    segment == HookSegments[n]
                IN /\ run = <<>> => InSeq(MissingRunError(n), segment.Errors)
                   /\ run # <<>> =>
                        /\ Classified(segment)
                        /\ segment.Insights["usesInlineScript"] = GoBool(~StatOk(run))
                        /\ segment.Data[ScriptKey] = IF StatOk(run) THEN ReadFile(run).bytes ELSE run

\* C9: on every hook segment that got past the run resolution, the
\* usesOsVariantScripts insight is recorded, and it is true exactly when the
\* hook has a POSIX override with a non-empty run and a Windows override with
\* a non-empty run.
C9_OsVariantIffBoth ==
    (HooksAnalyzed /\ HasHooksSegment) =>
        \A n \in DOMAIN HookSegments :
            LET hook == DeclaredHooks[n]
                segment == HookSegments[n]
            IN /\ Classified(segment) => "usesOsVariantScripts" \in DOMAIN segment.Insights
               /\ "usesOsVariantScripts" \in DOMAIN segment.Insights =>
                    segment.Insights["usesOsVariantScripts"] =
                        GoBool(~(\/ hook.Posix = Nil \/ hook.Windows = Nil
                                 \/ hook.Posix.Run = <<>> \/ hook.Windows.Run = <<>>))

\* a returned analysis with a hook that has both overrides and one that has none
C9_Witness ==
    /\ pc = "done" /\ HasHooksSegment
    /\ \E n, m \in DOMAIN HookSegments :
        /\ DeclaredHooks[n].Posix # Nil /\ DeclaredHooks[n].Windows # Nil
        /\ "usesOsVariantScripts" \in DOMAIN HookSegments[n].Insights
        /\ HookSegments[n].Insights["usesOsVariantScripts"] = GoBool(TRUE)
        /\ DeclaredHooks[m].Posix = Nil
        /\ "usesOsVariantScripts" \in DOMAIN HookSegments[m].Insights
        /\ HookSegments[m].Insights["usesOsVariantScripts"] = GoBool(FALSE)

\* C10: for every hook with an effective run value that was classified: with
\* no file at the run value, usesInlineScript is true and the run text is the
\* stored script; with a file there, usesInlineScript is false and the stored
\* script is the file's content, a failed read being an error on the hook
\* segment.  Either way the script is scanned (the heuristic insights are
\* recorded, and are the matches against it when it is the only script), and
\* when no hook lacks a run command every declared hook is analysed and the
\* rollups are derived.
C10_InlineOrFileScript ==
    (HooksAnalyzed /\ HasHooksSegment) =>
        /\ \A n \in DOMAIN HookSegments :
            LET run == EffectiveRun(DeclaredHooks[n])
                segment == HookSegments[n]
                exists == Join(run) \in DOMAIN fs
                readable == exists /\ fs[Join(run)].kind = "file"
            IN Classified(segment) =>
                /\ segment.Insights["usesInlineScript"] = GoBool(~exists)
                /\ ~exists => segment.Data[ScriptKey] = run
                /\ readable => segment.Data[ScriptKey] = fs[Join(run)].content
                /\ (exists /\ ~readable) =>
                        InSeq(Error("Failed reading hook file", "", Join(run)), segment.Errors)
                /\ HeuristicKeys \subseteq DOMAIN segment.Insights
                /\ DOMAIN segment.Data = {ScriptKey} =>
                        \A k \in HeuristicKeys :
                            segment.Insights[k] = GoBool(HeuristicMatch(k, segment.Data[ScriptKey]))
        /\ (pc # "panic" /\ \A n \in DOMAIN DeclaredHooks : EffectiveRun(DeclaredHooks[n]) # <<>>) =>
            /\ \A n \in DOMAIN DeclaredHooks : Classified(HookSegments[n])
            /\ \A c \in ComposedHookNames : "type-" \o c \in DOMAIN root.Segments["hooks"].Insights

\* a returned analysis with a hook whose run value names a directory (the read
\* fails), beside an inline hook
C10_Witness ==
    /\ pc = "done" /\ HasHooksSegment
    /\ \E n, m \in DOMAIN HookSegments :
        /\ Classified(HookSegments[n])
        /\ HookSegments[n].Insights["usesInlineScript"] = GoBool(FALSE)
        /\ HookSegments[n].Errors # <<>>
        /\ Classified(HookSegments[m])
        /\ HookSegments[m].Insights["usesInlineScript"] = GoBool(TRUE)
        /\ HookSegments[m].Data[ScriptKey] = AzLogin

\* the script references of a hook segment's primary script, in order
References(segment) == FindAllString(segment.Data[ScriptKey])

\* whether filepath.Join(templatePath, ref) is a readable file
Readable(ref) == Join(ref) \in DOMAIN fs /\ fs[Join(ref)].kind = "file"

EmbeddedError(ref) == Error("Failed reading embedded script", "", Join(ref))

\* the number of entries of seq that satisfy Test
CountIn(seq, Test(_)) == Cardinality({i \in 1..Len(seq) : Test(seq[i])})

\* C11: for every script reference matched in a hook's resolved script text a
\* read relative to the template root is attempted: a reference that reads is
\* a script of the hook under its own key (the reference, never the primary
\* script's key) with the file's content, a reference that does not read is
\* one error on the hook's segment (one per failed read, in order) and no
\* script, and either way the later references are read and the heuristic
\* insights are recorded.
C11_EmbeddedScripts ==
    (HooksAnalyzed /\ HasHooksSegment) =>
        \A n \in DOMAIN HookSegments :
            LET segment == HookSegments[n]
                unread(ref) == ~Readable(ref)
                embeddedError(e) == e.msg = "Failed reading embedded script"
            IN Classified(segment) =>
                \A refs \in {References(segment)} :
                    /\ DOMAIN segment.Data =
                            {ScriptKey} \cup {refs[i] : i \in {j \in 1..Len(refs) : Readable(refs[j])}}
                    /\ \A i \in 1..Len(refs) :
                         /\ refs[i] # ScriptKey
                         /\ Readable(refs[i]) => segment.Data[refs[i]] = fs[Join(refs[i])].content
                         /\ ~Readable(refs[i]) => InSeq(EmbeddedError(refs[i]), segment.Errors)
                    /\ CountIn(segment.Errors, embeddedError) = CountIn(refs, unread)
                    /\ HeuristicKeys \subseteq DOMAIN segment.Insights

\* a returned analysis with a hook whose script refers first to a script that
\* does not read and then to one that does
C11_Witness ==
    /\ pc = "done" /\ HasHooksSegment
    /\ \E n \in DOMAIN HookSegments :
        /\ Classified(HookSegments[n])
        /\ HookSegments[n].Data[ScriptKey] = TwoScripts
        /\ \E refs \in {References(HookSegments[n])} :
            /\ Len(refs) = 2
            /\ ~Readable(refs[1])
            /\ Readable(refs[2])
            /\ refs[2] \in DOMAIN HookSegments[n].Data
            /\ InSeq(EmbeddedError(refs[1]), HookSegments[n].Errors)

\* C12: on every analysed hook, each heuristic insight is true exactly when
\* the heuristic's pattern matches at least one of the scripts collected for
\* the hook (the primary script or a read embedded script).
C12_HeuristicMatchesAnyScript ==
    (HooksAnalyzed /\ HasHooksSegment) =>
        \A n \in DOMAIN HookSegments :
            Classified(HookSegments[n]) =>
                \A k \in HeuristicKeys :
                    /\ k \in DOMAIN HookSegments[n].Insights
                    /\ HookSegments[n].Insights[k] =
                        GoBool(\E key \in DOMAIN HookSegments[n].Data :
                                    HeuristicMatch(k, HookSegments[n].Data[key]))

TypeInsights == {"type-" \o c : c \in ComposedHookNames}

\* C13: once analyzeHooks has returned from a hook group, the group segment
\* holds the 14 insights type-<phase><name>, phase in {pre, post} and name in
\* {restore, build, provision, package, deploy, up, down}, each the boolean
\* telling whether a hook segment of that composed name is in the group.
C13_HookTypeRollups ==
    (HooksAnalyzed /\ HasHooksSegment /\ pc # "panic") =>
        /\ Cardinality(TypeInsights) = 14
        /\ {k \in DOMAIN root.Segments["hooks"].Insights : k \notin TypeInsights} = {}
        /\ \A phase \in {"pre", "post"} :
            \A name \in {"restore", "build", "provision", "package", "deploy", "up", "down"} :
                /\ ("type-" \o phase \o name) \in DOMAIN root.Segments["hooks"].Insights
                /\ root.Segments["hooks"].Insights["type-" \o phase \o name] =
                        GoBool((phase \o name) \in DOMAIN HookSegments)

\* the manifest declares the one project-level hook predeploy, run inline as az login
OnePredeployHook ==
    /\ manifest.ok
    /\ DeclaredHooks = [n \in {"predeploy"} |-> InlineHook]
    /\ ~StatOk(AzLogin)

\* the insights the scenario expects on the hook's segment
PredeployInsights(segment) ==
    /\ {"usesAzCli", "usesAzCliLogin", "usesAzd", "usesInlineScript"} \subseteq DOMAIN segment.Insights
    /\ segment.Insights["usesAzCli"] = GoBool(TRUE)
    /\ segment.Insights["usesAzCliLogin"] = GoBool(TRUE)
    /\ segment.Insights["usesAzd"] = GoBool(FALSE)
    /\ segment.Insights["usesInlineScript"] = GoBool(TRUE)

\* the scenario's result with the hook segment at path and its group at group
PredeployAt(tree, group, path) ==
    /\ path \in Paths(tree)
    /\ PredeployInsights(SegmentAt(tree, path))
    /\ "type-predeploy" \in DOMAIN SegmentAt(tree, group).Insights
    /\ SegmentAt(tree, group).Insights["type-predeploy"] = GoBool(TRUE)

\* C14 (as stated): the analysis of a template with the one project-level
\* hook predeploy, inline az login, has a segment at hooks.project.predeploy
\* with usesAzCli, usesAzCliLogin and usesInlineScript true and usesAzd false,
\* and the enclosing group hooks.project has type-predeploy true.
C14_PredeployUnderHooksProject ==
    (pc = "done" /\ OnePredeployHook) =>
        PredeployAt(ret.analysis, <<"hooks", "project">>, <<"hooks", "project", "predeploy">>)

\* C14 (amended): the analysis of that template has the segment at
\* hooks.predeploy (the hook group is the hooks segment itself, there is no
\* project level) with usesAzCli, usesAzCliLogin and usesInlineScript true and
\* usesAzd false, and the hooks segment has type-predeploy true.
C14_PredeployUnderHooks ==
    (pc = "done" /\ OnePredeployHook) =>
        /\ PredeployAt(ret.analysis, <<"hooks">>, <<"hooks", "predeploy">>)
        /\ DOMAIN ret.analysis.Segments = {"hooks"}
        /\ DOMAIN ret.analysis.Segments["hooks"].Segments = {"predeploy"}

\* a returned analysis of such a template
C14_Witness ==
    /\ pc = "done" /\ OnePredeployHook
    /\ ret.analysis.Segments["hooks"].Segments["predeploy"].Data[ScriptKey] = AzLogin

DeclaresProjectHooks == manifest.ok /\ DOMAIN manifest.project.Hooks # {}

DeclaresServiceHooks ==
    /\ manifest.ok
    /\ \E name \in DOMAIN manifest.project.Services :
            DOMAIN manifest.project.Services[name].Hooks # {}

\* the hooks segment is attached, and the project detector's hooks insight is
\* true, exactly when declared holds
HooksReportedIff(declared) ==
    /\ Len(calls) >= 1 => (HasHooksSegment <=> declared)
    /\ (Len(calls) = 2 /\ pc # "panic") =>
        /\ "hasProjectHooks" \in DOMAIN root.Insights
        /\ root.Insights["hasProjectHooks"] = GoBool(declared)

\* C15 (as stated): the hooks segment is attached to the root, and the hooks
\* insight of the project detector is true, exactly when the manifest declares
\* a project-level hook or a hook on some service.
C15_HooksIffProjectOrServiceHooks ==
    HooksReportedIff(DeclaresProjectHooks \/ DeclaresServiceHooks)

\* C15 (amended): the hooks segment is attached to the root, and the
\* hasProjectHooks insight of the project detector is true, exactly when the
\* manifest declares a project-level hook; a manifest whose only hooks are
\* service-level hooks gets no hooks segment and hasProjectHooks false.
C15_HooksIffProjectHooks ==
    HooksReportedIff(DeclaresProjectHooks)

\* a returned analysis of a manifest whose only hooks are on a service
C15_Witness ==
    /\ pc = "done"
    /\ DeclaresServiceHooks /\ ~DeclaresProjectHooks
    /\ ~HasHooksSegment
    /\ ret.analysis.Insights["hasProjectHooks"] = GoBool(FALSE)

DeclaredServices == manifest.project.Services

\* C16: with the manifest loaded, each host-<tag> insight of the seven host
\* tags is true exactly when some declared service has that host, each
\* lang-<family> insight of the four families exactly when some declared
\* service's language is one of the family's tags, and serviceCount is the
\* number of declared services.
C16_HostLanguageAndCount ==
    (Len(calls) = 2 /\ pc # "panic" /\ manifest.ok) =>
        /\ Cardinality(HostTypes) = 7 /\ Cardinality(DOMAIN Languages) = 4
        /\ \A h \in HostTypes :
            root.Insights["host-" \o h] =
                GoBool(\E name \in DOMAIN DeclaredServices : DeclaredServices[name].Host = h)
        /\ \A l \in DOMAIN Languages :
            root.Insights["lang-" \o l] =
                GoBool(\E name \in DOMAIN DeclaredServices :
                            DeclaredServices[name].Language \in Languages[l])
        /\ root.Insights["serviceCount"] = GoInt(Cardinality(DOMAIN DeclaredServices))

\* a returned analysis of a manifest with two services of different hosts,
\* one in a language of no family
C16_Witness ==
    /\ pc = "done" /\ manifest.ok
    /\ ret.analysis.Insights["serviceCount"] = GoInt(2)
    /\ ret.analysis.Insights["host-function"] = GoBool(TRUE)
    /\ ret.analysis.Insights["host-appservice"] = GoBool(TRUE)
    /\ ret.analysis.Insights["host-aks"] = GoBool(FALSE)
    /\ ret.analysis.Insights["lang-javascript"] = GoBool(TRUE)
    /\ ret.analysis.Insights["lang-python"] = GoBool(FALSE)

\* C19: an analysis of the template that was analysed first, made again
\* against the same unchanged directory, directly or after the analysis of
\* another template, returns the same tree: the same segments, insights,
\* data and errors.
C19_AnalyzeTemplateDeterministic ==
    (pc = "done" /\ first # Nil /\ manifest = first.manifest /\ fs = first.fs) =>
        ret.analysis = first.analysis

\* the number of goroutines of the loop at the position at
CountAt(at) ==
    BagCardinality([g \in {x \in BagToSet(goroutines) : x.at = at} |-> CopiesIn(g, goroutines)])

\* the templates of the list whose Sync has returned, by the messages printed
Logged(source) == \E l \in log : l.source = source

\* the loop over the corpus has been entered
InCorpusLoop == pc \in {"Add", "Send", "Wait"}

\* C17: while the whole corpus is synchronised, at most 10 Sync calls are
\* running at any time, however many templates the list has.
C17_AtMostTenSyncs ==
    /\ CountAt("Sync") <= 10
    /\ CountAt("Sync") + CountAt("returned") = sem
    /\ sem <= 10

\* eleven goroutines started, ten of them in Sync, and the command blocked on the send
C17_Witness ==
    /\ Len(templateList) > 10
    /\ pc = "Send" /\ started = 10
    /\ CountAt("Sync") = 10

\* C18: templates.json is written only once every Sync call started for the
\* corpus has finished, and a failed Sync is only printed: every template of
\* the list is still synced, templates.json is still written, and the command
\* returns an error only when Getwd, GetTemplates or the write itself failed.
C18_WriteAfterJoin ==
    /\ (pc = "Write" \/ templatesFile # Nil) =>
        /\ started = Len(templateList)
        /\ goroutines = EmptyBag
        /\ wg = 0 /\ sem = 0
        /\ \A k \in 1..Len(templateList) : Logged(templateList[k])
    /\ templatesFile # Nil =>
        templatesFile.content = templateList /\ pc = "done" /\ ret.err = Nil
    /\ (pc = "done" /\ flags.template = <<>> /\ ret.err # Nil) =>
        /\ ret.err.msg \in {"failed to get current working directory", "failed to get templates",
                            "failed to write templates file"}
        /\ templatesFile = Nil

\* the command returned nil after a corpus of more templates than permits in
\* which a Sync failed and a later one succeeded
C18_Witness ==
    /\ pc = "done" /\ ret.err = Nil
    /\ Len(templateList) > 10
    /\ templatesFile = [content |-> templateList]
    /\ [source |-> SourceA, ok |-> FALSE] \in log
    /\ [source |-> SourceB, ok |-> TRUE] \in log

\* C20: with every Sync call returning eventually, the loop over the corpus
\* never gets stuck: from any point of it the command reaches the write of
\* templates.json, with every goroutine ended and every permit given back.
C20_SyncLoopReachesWrite ==
    InCorpusLoop ~> (pc = "Write" /\ goroutines = EmptyBag /\ sem = 0 /\ wg = 0
                        /\ started = Len(templateList))

\* the write is reached after the command had to wait for a permit
C20_Witness ==
    /\ pc = "Write"
    /\ Len(templateList) > 10
    /\ started = Len(templateList)
    /\ sem = 0

\* the goroutines of the loop whose Sync call is running
RunningSyncs == {g \in BagToSet(goroutines) : g.at = "Sync"}

\* C21: templates of distinct sources have distinct local directories
\* (outputDir joined with the base name of the source), so that no two Sync
\* calls running at the same time for distinct sources clone or pull into
\* the same repository directory, and the directory a template's tree is
\* computed from is that template's alone.
C21_DistinctSourcesDistinctDirs ==
    /\ \A i, j \in 1..Len(templateList) :
        templateList[i] # templateList[j] => Base(templateList[i]) # Base(templateList[j])
    /\ \A g, h \in RunningSyncs :
        g.source # h.source => Base(g.source) # Base(h.source)

====
